---- MODULE Spec2Model ----
(***************************************************************************)
(* Model of ult_algo::sequence: the ordered-search family of search.rs     *)
(* (binary and the queries derived from it, exponential, interpolation     *)
(* and ternary), the two resumable permutation generators of               *)
(* permutation.rs (HeapGen, SJTEven), the matchers of match_.rs (bitap,    *)
(* levenshtein_distance) and quickselect of selection.rs.                  *)
(*                                                                         *)
(* Positions are 0-based as in the source; a Rust slice is a TLA+ sequence *)
(* read through At.  Option<usize> is a set: None is {} and Some(i) is {i}.*)
(***************************************************************************)
EXTENDS Integers, Sequences, FiniteSets, TLC

\* ------------------------------------------------------------------ bounds
\* Longest slice handed to a search function.
MaxLen == 4
\* Element values are 0..MaxVal and TMax-MaxVal..TMax (both ends of the type).
MaxVal == 2
\* Longest vector handed to a permutation generator.
MaxN == 4
\* A generator is followed until it has signalled exhaustion this many times.
MaxSignals == 2
\* Longest sequence handed to bitap and levenshtein_distance; their elements
\* are 0..MaxSym.
MaxStr == 3
MaxSym == 1
\* Longest list handed to quick_smallest and partition; its elements are
\* 0..MaxKey.
MaxList == 4
MaxKey == 2
\* ternary: the bounds lie at most MaxSteps floats above the start of their
\* binade, the binade is one of the first MaxBinade + 1 from [32, 64) up, the
\* precision is at most MaxPrecision grid units, and a call is followed for
\* MaxIterations iterations.
MaxSteps == 4
MaxBinade == 1
MaxPrecision == 3
MaxIterations == 3

\* ------------------------------------------------- element type of a search
\* The searches are generic in T.  interpolation needs arithmetic on T; T is
\* instantiated at the narrowest unsigned type that satisfies its bounds, u8.
TBits == 8
TMax == 2^TBits - 1

Elems == (0..MaxVal) \cup ((TMax - MaxVal)..TMax)

None == {}
Some(i) == {i}

At(s, i) == s[i + 1]

Min(a, b) == IF a <= b THEN a ELSE b

IsSorted(s) == \A i \in 1..Len(s) : \A j \in i..Len(s) : s[i] <= s[j]

SortedSequences ==
  UNION {{s \in [1..n -> Elems] : IsSorted(s)} : n \in 0..MaxLen}

\* ------------------------------------------------------------ arithmetic
\* Arithmetic on T (u8).  With overflow checks on (debug profile) an operation
\* whose exact result leaves 0..TMax panics; with them off (release profile) it
\* wraps modulo 2^TBits.
Overflows(x) == x < 0 \/ x > TMax

Wrap(x) == x % (TMax + 1)

Panicked == [panicked |-> TRUE, value |-> None]

Returned(value) == [panicked |-> FALSE, value |-> value]

\* ------------------------------------------------------------------ binary
\* The constructor with a matched position equal to the rank refused too.
BinarySearchResult_new_strict(index, rank) ==
  [index |-> index, rank |-> rank,
   panicked |-> \E i \in index : rank >= i]

BinarySearchResult_new(index, rank) ==
  [index |-> index, rank |-> rank,
   panicked |-> \E i \in index : rank > i]

RECURSIVE binary_loop(_, _, _, _)
binary_loop(sequence, v, left, right) ==
  IF left <= right
  THEN LET m == (left + right) \div 2
       IN  IF At(sequence, m) < v THEN binary_loop(sequence, v, m + 1, right)
           ELSE IF At(sequence, m) > v THEN binary_loop(sequence, v, left, m - 1)
           ELSE BinarySearchResult_new(Some(m), m)
  ELSE BinarySearchResult_new(None, left)

\* binary with the last position left out of the search window.
binary_off_by_one(sequence, v) == binary_loop(sequence, v, 0, Len(sequence) - 2)

binary(sequence, v) == binary_loop(sequence, v, 0, Len(sequence) - 1)

\* ------------------------------------------------------------- exponential
RECURSIVE exponential_bound(_, _, _)
exponential_bound(sequence, v, bound) ==
  IF bound < Len(sequence) /\ At(sequence, bound) < v
  THEN exponential_bound(sequence, v, bound * 2)
  ELSE bound

exponential(sequence, v) ==
  LET size == Len(sequence)
  IN  IF size = 0 THEN None
      ELSE LET bound == exponential_bound(sequence, v, 1)
               lower_bound == bound \div 2
               upper_bound == Min(bound + 1, size)
               found == binary(SubSeq(sequence, lower_bound + 1, upper_bound), v).index
           IN  {lower_bound + i : i \in found}

\* ------------------------------------------------- macros derived from binary
binary_predecessor(sequence, v) ==
  LET predecessor_idx == binary(sequence, v).rank - 1
  IN  IF predecessor_idx >= 0 THEN Some(predecessor_idx) ELSE None

binary_successor(sequence, v) ==
  IF Len(sequence) = 0 THEN None
  ELSE LET result == binary(sequence, v)
       IN  IF result.index = None /\ result.rank = 0 THEN Some(0)
           ELSE LET successor_idx ==
                      IF result.index = None THEN result.rank ELSE result.rank + 1
                IN  IF successor_idx < Len(sequence) THEN Some(successor_idx) ELSE None

\* The rank 0 branch without the step past v's own slot.
nearest_at_front_keeps_own_slot(result) == Some(0)

\* The return of binary_nearest_neighbor when the rank is 0.
nearest_at_front(result) == IF result.index = None THEN Some(0) ELSE Some(1)

\* The subtractions are T's: on a sorted sequence neither leaves 0..TMax.
binary_nearest_neighbor(sequence, v, overflow_checks) ==
  IF Len(sequence) = 0 THEN Returned(None)
  ELSE LET result == binary(sequence, v)
       IN  IF result.rank = 0
           THEN Returned(nearest_at_front(result))
           ELSE LET predecessor_idx == result.rank - 1
                    successor_idx == result.rank + 1
                IN  IF successor_idx < Len(sequence)
                    THEN LET p_diff == At(sequence, result.rank) - At(sequence, predecessor_idx)
                             s_diff == At(sequence, successor_idx) - At(sequence, result.rank)
                         IN  IF overflow_checks /\ (Overflows(p_diff) \/ Overflows(s_diff))
                             THEN Panicked
                             ELSE IF Wrap(p_diff) <= Wrap(s_diff)
                             THEN Returned(Some(predecessor_idx))
                             ELSE Returned(Some(successor_idx))
                    ELSE Returned(Some(predecessor_idx))

\* ----------------------------------------------------------- interpolation

\* The probe of one loop iteration: <<panicked, mid>>.
interpolation_mid(sequence, v, low, high, overflow_checks) ==
  LET k == high - low
      d == v - At(sequence, low)
      span == At(sequence, high) - At(sequence, low)
  IN  IF k > TMax THEN <<TRUE, 0>>
      ELSE IF overflow_checks /\ (Overflows(d) \/ Overflows(d * k) \/ Overflows(span))
      THEN <<TRUE, 0>>
      ELSE IF Wrap(span) = 0 THEN <<TRUE, 0>>
      ELSE <<FALSE, low + (Wrap(Wrap(d) * k) \div Wrap(span))>>

RECURSIVE interpolation_loop(_, _, _, _, _)
interpolation_loop(sequence, v, low, high, overflow_checks) ==
  IF low >= Len(sequence) \/ high >= Len(sequence) \/ high < 0 THEN Panicked
  ELSE IF /\ At(sequence, high) # At(sequence, low)
          /\ v >= At(sequence, low)
          /\ v <= At(sequence, high)
  THEN LET probe == interpolation_mid(sequence, v, low, high, overflow_checks)
           mid == probe[2]
       IN  IF probe[1] \/ mid >= Len(sequence) THEN Panicked
           ELSE IF At(sequence, mid) < v
           THEN interpolation_loop(sequence, v, mid + 1, high, overflow_checks)
           ELSE IF At(sequence, mid) > v
           THEN interpolation_loop(sequence, v, low, mid - 1, overflow_checks)
           ELSE Returned(Some(mid))
  ELSE IF At(sequence, low) = v THEN Returned(Some(low)) ELSE Returned(None)

interpolation(sequence, v, overflow_checks) ==
  IF Len(sequence) = 0 THEN Returned(None)
  ELSE interpolation_loop(sequence, v, 0, Len(sequence) - 1, overflow_checks)

\* What the loop goes through from the window [low, high] on: one record per
\* probe ("probe" when the window is narrowed, "found" on a match, "panic" when
\* the iteration fails) and a last one for the loop's exit ("exit", or "panic"
\* when reading sequence[low] or sequence[high] fails).
RECURSIVE interpolation_steps(_, _, _, _, _)
interpolation_steps(sequence, v, low, high, overflow_checks) ==
  IF low >= Len(sequence) \/ high >= Len(sequence) \/ high < 0
  THEN <<[at |-> "panic", low |-> low, high |-> high, mid |-> low]>>
  ELSE IF /\ At(sequence, high) # At(sequence, low)
          /\ v >= At(sequence, low)
          /\ v <= At(sequence, high)
  THEN LET probe == interpolation_mid(sequence, v, low, high, overflow_checks)
           mid == probe[2]
       IN  IF probe[1] \/ mid >= Len(sequence)
           THEN <<[at |-> "panic", low |-> low, high |-> high, mid |-> mid]>>
           ELSE IF At(sequence, mid) < v
           THEN <<[at |-> "probe", low |-> low, high |-> high, mid |-> mid]>>
                  \o interpolation_steps(sequence, v, mid + 1, high, overflow_checks)
           ELSE IF At(sequence, mid) > v
           THEN <<[at |-> "probe", low |-> low, high |-> high, mid |-> mid]>>
                  \o interpolation_steps(sequence, v, low, mid - 1, overflow_checks)
           ELSE <<[at |-> "found", low |-> low, high |-> high, mid |-> mid]>>
  ELSE <<[at |-> "exit", low |-> low, high |-> high, mid |-> low]>>

\* ----------------------------------------------------------------- HeapGen
\* An exchange that loses the element at position i.
Swap_overwriting(s, i, j) == [s EXCEPT ![i + 1] = s[j + 1]]

\* Vec::swap on 0-based positions.
Swap(s, i, j) == [s EXCEPT ![i + 1] = s[j + 1], ![j + 1] = s[i + 1]]

HeapGen_new(v) ==
  [last_permutation |-> v,
   swaps |-> [i \in 1..Len(v) |-> 0],
   n |-> 0,
   count |-> 0]

\* The choice without the test of n's parity.
HeapGen_swap_always_counter(n, counter) == counter

\* The position exchanged with position n.
HeapGen_swap_with(n, counter) == IF n % 2 = 0 THEN 0 ELSE counter

\* The reset with the call counter left running.
HeapGen_reset_keeping_count(self) ==
  [self EXCEPT !.swaps = [i \in 1..Len(self.swaps) |-> 0], !.n = 0]

\* The reset before exhaustion is signalled.
HeapGen_reset(self) ==
  [self EXCEPT !.swaps = [i \in 1..Len(self.swaps) |-> 0], !.n = 0, !.count = 0]

\* One call of next, the calls it makes to itself included:
\* <<the generator afterwards, Some(vector) or None>>.
RECURSIVE HeapGen_next(_)
HeapGen_next(gen) ==
  LET self == [gen EXCEPT !.count = @ + 1]
  IN  IF self.count = 1 THEN <<self, Some(self.last_permutation)>>
      ELSE IF self.n < Len(self.last_permutation)
      THEN LET counter == At(self.swaps, self.n)
           IN  IF counter < self.n
               THEN LET swapped ==
                          [self EXCEPT
                             !.last_permutation =
                                Swap(@, HeapGen_swap_with(self.n, counter), self.n),
                             !.swaps[self.n + 1] = @ + 1,
                             !.n = 0]
                    IN  <<swapped, Some(swapped.last_permutation)>>
               ELSE HeapGen_next([self EXCEPT !.swaps[self.n + 1] = 0, !.n = @ + 1])
      ELSE <<HeapGen_reset(self), None>>

\* ----------------------------------------------------------------- SJTEven
SJTEven_new(v) ==
  [last_permutation |-> v,
   directions |-> [i \in 1..Len(v) |-> IF i = 1 THEN 0 ELSE -1],
   count |-> 0]

\* The scan for the largest element with a nonzero direction, from position i
\* on: <<max_i, is_marked>>.
RECURSIVE SJTEven_find(_, _, _, _)
SJTEven_find(self, i, max_i, is_marked) ==
  IF i >= Len(self.last_permutation) THEN <<max_i, is_marked>>
  ELSE IF At(self.directions, i) # 0
  THEN SJTEven_find(self, i + 1,
                    IF \/ At(self.directions, max_i) = 0
                       \/ At(self.last_permutation, i) > At(self.last_permutation, max_i)
                    THEN i ELSE max_i,
                    TRUE)
  ELSE SJTEven_find(self, i + 1, max_i, is_marked)

\* The directions after the last loop of next: every element greater than the
\* one at max_i looks towards it.
SJTEven_remark(last_permutation, directions, max_i) ==
  [i \in 1..Len(directions) |->
     IF last_permutation[i] > At(last_permutation, max_i)
     THEN (IF i - 1 < max_i THEN 1 ELSE -1)
     ELSE directions[i]]

\* One call of next: <<the generator afterwards, "some" | "none" | "panic">>;
\* a returned vector is the generator's last_permutation.
SJTEven_next(gen) ==
  LET self == [gen EXCEPT !.count = @ + 1]
      size == Len(self.last_permutation)
  IN  IF self.count = 1 THEN <<self, "some">>
      ELSE LET found == SJTEven_find(self, 0, 0, FALSE)
               old_max_i == found[1]
           IN  IF ~found[2]
               THEN (IF size = 0 THEN <<self, "panic">>
                     ELSE <<[self EXCEPT
                               !.directions = [i \in 1..size |-> IF i = 1 THEN 0 ELSE -1],
                               !.count = 0],
                            "none">>)
               ELSE LET max_i == old_max_i + At(self.directions, old_max_i)
                    IN  IF max_i < 0 \/ max_i >= size THEN <<self, "panic">>
                        ELSE LET perm == Swap(self.last_permutation, max_i, old_max_i)
                                 dirs == Swap(self.directions, max_i, old_max_i)
                                 last_i == size - 1
                                 next_i == max_i + At(dirs, max_i)
                                 stopped ==
                                   IF \/ max_i = 0
                                      \/ max_i = last_i
                                      \/ At(perm, next_i) > At(perm, max_i)
                                   THEN [dirs EXCEPT ![max_i + 1] = 0]
                                   ELSE dirs
                             IN  <<[self EXCEPT
                                      !.last_permutation = perm,
                                      !.directions = SJTEven_remark(perm, stopped, max_i)],
                                   "some">>

\* ------------------------------------------------------------------- bitap
\* The inner loop of one scan step, for k from the given one down to 1.
RECURSIVE bitap_update(_, _, _, _)
bitap_update(bit_arr, x, pattern, k) ==
  IF k < 1 THEN bit_arr
  ELSE LET prev_bit == bit_arr[k - 1]
       IN  bitap_update([bit_arr EXCEPT ![k] = prev_bit /\ (x = At(pattern, k - 1))],
                        x, pattern, k - 1)

\* The start of the match that ends at position i, computed in usize as
\* (i - pat_len) + 1.  The subtraction is below 0 when the match starts at
\* position 0: it panics with overflow checks on; without them both operations
\* wrap modulo 2^64 and the sum is the exact one.
bitap_match_start(i, pat_len, overflow_checks) ==
  IF overflow_checks /\ i - pat_len < 0 THEN Panicked
  ELSE Returned(i - pat_len + 1)

\* The outer loop from position i on.
RECURSIVE bitap_scan(_, _, _, _, _)
bitap_scan(sequence, pattern, i, bit_arr, overflow_checks) ==
  IF i >= Len(sequence) THEN Returned(-1)
  ELSE LET updated == bitap_update(bit_arr, At(sequence, i), pattern, Len(pattern))
       IN  IF updated[Len(pattern)]
           THEN bitap_match_start(i, Len(pattern), overflow_checks)
           ELSE bitap_scan(sequence, pattern, i + 1, updated, overflow_checks)

bitap(sequence, pattern, overflow_checks) ==
  LET pat_len == Len(pattern)
      seq_len == Len(sequence)
  IN  IF pat_len = 0 THEN Returned(0)
      ELSE IF pat_len > seq_len THEN Returned(-1)
      ELSE bitap_scan(sequence, pattern, 0,
                      [k \in 0..pat_len |-> k = 0], overflow_checks)

\* ---------------------------------------------------- levenshtein_distance
\* Deletion-only cost without the base column.
base_column_unset(i) == 0

\* distances[i][0]: the first i source elements dropped.
base_column(i) == i

\* Substitution charged even for equal elements.
substitution_cost_always(a, b) == 1

substitution_cost(a, b) == IF a = b THEN 0 ELSE 1

Min3(a, b, c) == Min(a, Min(b, c))

\* The loops that fill the table, j outermost, from cell (i, j) on.
RECURSIVE levenshtein_fill(_, _, _, _, _)
levenshtein_fill(distances, source, target, i, j) ==
  IF j > Len(target) THEN distances
  ELSE IF i > Len(source) THEN levenshtein_fill(distances, source, target, 1, j + 1)
  ELSE LET cell == Min3(distances[i - 1][j] + 1,
                        distances[i][j - 1] + 1,
                        distances[i - 1][j - 1]
                          + substitution_cost(At(source, i - 1), At(target, j - 1)))
       IN  levenshtein_fill([distances EXCEPT ![i][j] = cell], source, target, i + 1, j)

\* The table when the function returns.
levenshtein_distances(source, target) ==
  levenshtein_fill([i \in 0..Len(source) |->
                      [j \in 0..Len(target) |->
                         IF j = 0 THEN base_column(i) ELSE IF i = 0 THEN j ELSE 0]],
                   source, target, 1, 1)

levenshtein_distance(source, target) ==
  levenshtein_distances(source, target)[Len(source)][Len(target)]

\* ------------------------------------------------------------- quickselect
\* Elements equal to the pivot sent to the front too.
goes_before_or_equal(x, pivot) == x <= pivot

\* list[i] < list[last_idx]
goes_before(x, pivot) == x < pivot

\* The loop of partition from position i on: <<list, store_idx>>.
RECURSIVE partition_loop(_, _, _, _)
partition_loop(list, i, store_idx, last_idx) ==
  IF i >= last_idx THEN <<list, store_idx>>
  ELSE IF goes_before(At(list, i), At(list, last_idx))
  THEN partition_loop(Swap(list, store_idx, i), i + 1, store_idx + 1, last_idx)
  ELSE partition_loop(list, i + 1, store_idx, last_idx)

\* The list afterwards and the returned position, for a non-empty list.
partition(list, pivot_idx) ==
  LET last_idx == Len(list) - 1
      looped == partition_loop(Swap(list, pivot_idx, last_idx), 0, 0, last_idx)
  IN  [list |-> Swap(looped[1], looped[2], last_idx), store_idx |-> looped[2]]

\* The entry check with k = len let through.
k_beyond_length(k, len) == k > len

\* k >= list.len()
k_out_of_range(k, len) == k >= len

\* The rank kept when the pivot is not dropped from the right part.
right_k_with_pivot(k, pivot_idx) == k - pivot_idx

\* The rank passed on with the part right of the pivot.
right_k(k, pivot_idx) == k - pivot_idx - 1

\* ----------------------------------------------------------------- ternary
\* f64 values are kept as whole numbers.  Precisions and widths count units of
\* 2^-47, the distance between neighbouring f64 values in [32, 64); the bounds
\* left and right count the f64 values between the start of their common binade
\* [32 * 2^binade, 64 * 2^binade) and the bound, neighbouring values of that
\* binade being ulp(binade) units apart.  (A binade below 0 mirrors this one.)
ulp(binade) == 2 ^ binade

\* 1e-14 is 1.407... units: a precision of a whole number of units is below
\* 1e-14 exactly when it is below 2 units.
PrecisionFloor == 2

\* absolute_precision < 1e-14
precision_too_small(absolute_precision) == absolute_precision < PrecisionFloor

\* (right-left).abs() in units; the difference of two values of one binade is
\* exact.
ternary_width(left, right, binade) ==
  (IF right >= left THEN right - left ELSE left - right) * ulp(binade)

\* What adding (right-left)/3 to left, or subtracting it from right, moves the
\* bound by: the sum is rounded to the nearest value of the binade, and a
\* third of a whole number is never halfway between two whole numbers.
rounded_third(steps) ==
  IF steps >= 0 THEN (steps + 1) \div 3 ELSE 0 - ((1 - steps) \div 3)

left_third(left, right) == left + rounded_third(right - left)

right_third(left, right) == right - rounded_third(right - left)

\* ------------------------------------------------------------------- state
\* A search call: its arguments, the build profile, the function called and
\* what it returned.
VARIABLES sequence, val, overflow_checks, op, result

\* A HeapGen: the generator, the kind of its last return ("new" before the
\* first call), the vectors returned since creation or the last None, and the
\* number of None returned so far.
VARIABLES heap, heap_out, heap_cycle, heap_exhausted

\* An SJTEven: the vector it was created with, and the same as for HeapGen.
VARIABLES sjt_input, sjt, sjt_out, sjt_cycle, sjt_exhausted

\* The matchers: bitap's pattern (its sequence, build profile and result are
\* those of a search call) and levenshtein_distance's arguments.
VARIABLES pattern, source, target

match_vars == <<pattern, source, target>>

\* A quick_smallest call: its arguments, the caller's slice as it is reordered
\* in place, the part of it (and the rank) the running call of quick_smallest
\* was given, where the call stands, what it returned, the pivot positions
\* drawn so far and the last call of partition.
VARIABLES select_in, buffer, frame, select_pc, selected, pivots, partitioned

\* A ternary call: its bounds and precision, the binade the bounds lie in,
\* where the call stands and the iterations of its loop so far (each evaluates
\* f twice).
VARIABLES left, right, absolute_precision, binade, ternary_pc, iterations

ternary_vars == <<left, right, absolute_precision, binade, ternary_pc, iterations>>

select_vars == <<select_in, buffer, frame, select_pc, selected, pivots, partitioned>>

\* What the searches and the generators leave alone.
other_vars == <<match_vars, select_vars, ternary_vars>>

search_vars == <<sequence, val, overflow_checks, op, result>>

heap_vars == <<heap, heap_out, heap_cycle, heap_exhausted>>

sjt_vars == <<sjt_input, sjt, sjt_out, sjt_cycle, sjt_exhausted>>

vars == <<search_vars, heap_vars, sjt_vars, match_vars, select_vars, ternary_vars>>

\* The arrangements of 1..n.
Arrangements(n) == {s \in [1..n -> 1..n] : \A i, j \in 1..n : s[i] = s[j] => i = j}

NoSearch ==
  /\ sequence = <<>>
  /\ val = 0
  /\ overflow_checks = FALSE
  /\ op = "none"
  /\ result = None

NoMatch ==
  /\ pattern = <<>>
  /\ source = <<>>
  /\ target = <<>>

NotPartitioned == [called |-> FALSE, before |-> <<>>, pivot_idx |-> 0, after |-> <<>>, p |-> 0]

NoSelect ==
  /\ select_in = [list |-> <<>>, k |-> 0]
  /\ buffer = <<>>
  /\ frame = [lo |-> 0, len |-> 0, k |-> 0]
  /\ select_pc = "new"
  /\ selected = None
  /\ pivots = <<>>
  /\ partitioned = NotPartitioned

NoTernary ==
  /\ left = 0
  /\ right = 0
  /\ absolute_precision = PrecisionFloor
  /\ binade = 0
  /\ ternary_pc = "new"
  /\ iterations = 0

Others ==
  /\ NoMatch
  /\ NoSelect
  /\ NoTernary

NoHeap ==
  /\ heap = HeapGen_new(<<>>)
  /\ heap_out = "new"
  /\ heap_cycle = <<>>
  /\ heap_exhausted = 0

NoSJT ==
  /\ sjt_input = <<>>
  /\ sjt = SJTEven_new(<<>>)
  /\ sjt_out = "new"
  /\ sjt_cycle = <<>>
  /\ sjt_exhausted = 0

\* ------------------------------------------------------ the search functions
Init ==
  /\ sequence \in SortedSequences
  /\ val \in Elems
  /\ overflow_checks \in BOOLEAN
  /\ op = "none"
  /\ result = None
  /\ NoHeap
  /\ NoSJT
  /\ Others

CallBinary ==
  /\ op = "none"
  /\ op' = "binary"
  /\ result' = binary(sequence, val)
  /\ UNCHANGED <<sequence, val, overflow_checks, heap_vars, sjt_vars, other_vars>>

CallExponential ==
  /\ op = "none"
  /\ op' = "exponential"
  /\ result' = exponential(sequence, val)
  /\ UNCHANGED <<sequence, val, overflow_checks, heap_vars, sjt_vars, other_vars>>

CallInterpolation ==
  /\ op = "none"
  /\ op' = "interpolation"
  /\ result' = interpolation(sequence, val, overflow_checks)
  /\ UNCHANGED <<sequence, val, overflow_checks, heap_vars, sjt_vars, other_vars>>

CallBinaryPredecessor ==
  /\ op = "none"
  /\ op' = "binary_predecessor"
  /\ result' = binary_predecessor(sequence, val)
  /\ UNCHANGED <<sequence, val, overflow_checks, heap_vars, sjt_vars, other_vars>>

CallBinarySuccessor ==
  /\ op = "none"
  /\ op' = "binary_successor"
  /\ result' = binary_successor(sequence, val)
  /\ UNCHANGED <<sequence, val, overflow_checks, heap_vars, sjt_vars, other_vars>>

CallBinaryNearestNeighbor ==
  /\ op = "none"
  /\ op' = "binary_nearest_neighbor"
  /\ result' = binary_nearest_neighbor(sequence, val, overflow_checks)
  /\ UNCHANGED <<sequence, val, overflow_checks, heap_vars, sjt_vars, other_vars>>

Next ==
  \/ CallBinary
  \/ CallExponential
  \/ CallInterpolation
  \/ CallBinaryPredecessor
  \/ CallBinarySuccessor
  \/ CallBinaryNearestNeighbor

Spec == Init /\ [][Next]_vars

\* --------------------------------------------------------- a HeapGen in use
InitHeap ==
  /\ NoSearch
  /\ NoSJT
  /\ Others
  /\ \E n \in 0..MaxN : \E v \in Arrangements(n) : heap = HeapGen_new(v)
  /\ heap_out = "new"
  /\ heap_cycle = <<>>
  /\ heap_exhausted = 0

HeapNext ==
  /\ heap_exhausted < MaxSignals
  /\ LET r == HeapGen_next(heap)
     IN  /\ heap' = r[1]
         /\ heap_out' = IF r[2] = None THEN "none" ELSE "some"
         /\ heap_cycle' = IF r[2] = None THEN heap_cycle
                          ELSE IF heap_out = "none" THEN <<r[1].last_permutation>>
                          ELSE Append(heap_cycle, r[1].last_permutation)
         /\ heap_exhausted' = IF r[2] = None THEN heap_exhausted + 1 ELSE heap_exhausted
  /\ UNCHANGED <<search_vars, sjt_vars, other_vars>>

NextHeap == HeapNext

SpecHeap == InitHeap /\ [][NextHeap]_vars

\* --------------------------------------------------------- an SJTEven in use
InitSJT ==
  /\ NoSearch
  /\ NoHeap
  /\ Others
  /\ \E n \in 0..MaxN : sjt_input \in Arrangements(n)
  /\ sjt = SJTEven_new(sjt_input)
  /\ sjt_out = "new"
  /\ sjt_cycle = <<>>
  /\ sjt_exhausted = 0

SJTNext ==
  /\ sjt_exhausted < MaxSignals
  /\ sjt_out # "panic"
  /\ LET r == SJTEven_next(sjt)
     IN  /\ sjt' = r[1]
         /\ sjt_out' = r[2]
         /\ sjt_cycle' = IF r[2] # "some" THEN sjt_cycle
                         ELSE IF sjt_out = "none" THEN <<r[1].last_permutation>>
                         ELSE Append(sjt_cycle, r[1].last_permutation)
         /\ sjt_exhausted' = IF r[2] = "none" THEN sjt_exhausted + 1 ELSE sjt_exhausted
  /\ UNCHANGED <<search_vars, heap_vars, sjt_input, other_vars>>

NextSJT == SJTNext

SpecSJT == InitSJT /\ [][NextSJT]_vars

\* ------------------------------------------- either generator in use
\* The two generators share nothing, so a behaviour follows one of them: the
\* one called first.
InitGenerators == InitHeap \/ InitSJT

HeapNextInUse ==
  /\ sjt_out = "new"
  /\ HeapNext

SJTNextInUse ==
  /\ heap_out = "new"
  /\ SJTNext

NextGenerators == HeapNextInUse \/ SJTNextInUse

SpecGenerators == InitGenerators /\ [][NextGenerators]_vars

\* ------------------------------- a search call on any sequence, sorted or not
AnySequences == UNION {[1..n -> 0..MaxVal] : n \in 0..MaxLen}

InitAny ==
  /\ sequence \in AnySequences
  /\ val \in Elems
  /\ overflow_checks \in BOOLEAN
  /\ op = "none"
  /\ result = None
  /\ NoHeap
  /\ NoSJT
  /\ Others

NextAny ==
  \/ CallBinary
  \/ CallExponential
  \/ CallBinaryPredecessor
  \/ CallBinarySuccessor
  \/ CallBinaryNearestNeighbor

SpecAny == InitAny /\ [][NextAny]_vars

\* ------------------------------------------------------------ a bitap call
Symbols == 0..MaxSym

Strings == UNION {[1..n -> Symbols] : n \in 0..MaxStr}

InitBitap ==
  /\ sequence \in Strings
  /\ pattern \in Strings
  /\ overflow_checks \in BOOLEAN
  /\ val = 0
  /\ op = "none"
  /\ result = None
  /\ source = <<>>
  /\ target = <<>>
  /\ NoHeap
  /\ NoSJT
  /\ NoSelect
  /\ NoTernary

CallBitap ==
  /\ op = "none"
  /\ op' = "bitap"
  /\ result' = bitap(sequence, pattern, overflow_checks)
  /\ UNCHANGED <<sequence, val, overflow_checks, heap_vars, sjt_vars, match_vars, select_vars,
                 ternary_vars>>

NextBitap == CallBitap

SpecBitap == InitBitap /\ [][NextBitap]_vars

\* ------------------------------------------- a levenshtein_distance call
InitLevenshtein ==
  /\ NoSearch
  /\ NoHeap
  /\ NoSJT
  /\ pattern = <<>>
  /\ source \in Strings
  /\ target \in Strings
  /\ NoSelect
  /\ NoTernary

CallLevenshteinDistance ==
  /\ op = "none"
  /\ op' = "levenshtein_distance"
  /\ result' = levenshtein_distance(source, target)
  /\ UNCHANGED <<sequence, val, overflow_checks, heap_vars, sjt_vars, match_vars, select_vars,
                 ternary_vars>>

NextLevenshtein == CallLevenshteinDistance

SpecLevenshtein == InitLevenshtein /\ [][NextLevenshtein]_vars

\* ----------------------------------------------------- a quickselect call
Lists == UNION {[1..n -> 0..MaxKey] : n \in 0..MaxList}

InitSelect ==
  /\ NoSearch
  /\ NoHeap
  /\ NoSJT
  /\ NoMatch
  /\ NoTernary
  /\ select_in \in [list : Lists, k : 0..MaxList]
  /\ buffer = select_in.list
  /\ frame = [lo |-> 0, len |-> Len(select_in.list), k |-> select_in.k]
  /\ select_pc = "new"
  /\ selected = None
  /\ pivots = <<>>
  /\ partitioned = NotPartitioned

\* buffer with the part from position lo on replaced by list.
Spliced(lo, list) ==
  [i \in 1..Len(buffer) |->
     IF lo < i /\ i <= lo + Len(list) THEN list[i - lo] ELSE buffer[i]]

\* One call of quick_smallest, up to its return or to the call it makes to
\* itself; the pivot position is whatever the random source yields.
QuickSmallest ==
  /\ select_pc \in {"new", "call"}
  /\ LET list == SubSeq(buffer, frame.lo + 1, frame.lo + frame.len)
         k == frame.k
     IN  IF k_out_of_range(k, Len(list))
         THEN /\ select_pc' = "panic"
              /\ UNCHANGED <<buffer, frame, selected, pivots, partitioned>>
         ELSE IF Len(list) = 1
         THEN /\ select_pc' = "returned"
              /\ selected' = Some(At(list, 0))
              /\ UNCHANGED <<buffer, frame, pivots, partitioned>>
         ELSE IF Len(list) = 0
         THEN \* gen_range(0, 0): the random source rejects an empty range
              /\ select_pc' = "panic"
              /\ UNCHANGED <<buffer, frame, selected, pivots, partitioned>>
         ELSE \E pivot_idx \in 0..(Len(list) - 1) :
                LET parted == partition(list, pivot_idx)
                    p == parted.store_idx
                IN  /\ pivots' = Append(pivots, pivot_idx)
                    /\ partitioned' = [called |-> TRUE, before |-> list,
                                       pivot_idx |-> pivot_idx,
                                       after |-> parted.list, p |-> p]
                    /\ buffer' = Spliced(frame.lo, parted.list)
                    /\ IF k = p
                       THEN /\ select_pc' = "returned"
                            /\ selected' = Some(At(parted.list, k))
                            /\ UNCHANGED frame
                       ELSE /\ select_pc' = "call"
                            /\ UNCHANGED selected
                            /\ frame' =
                                 IF k < p
                                 THEN [lo |-> frame.lo, len |-> p, k |-> k]
                                 ELSE [lo |-> frame.lo + p + 1,
                                       len |-> Len(list) - p - 1,
                                       k |-> right_k(k, p)]
  /\ UNCHANGED <<select_in, search_vars, heap_vars, sjt_vars, match_vars, ternary_vars>>

\* partition called on its own.
Partition ==
  /\ select_pc = "new"
  /\ Len(buffer) >= 1
  /\ \E pivot_idx \in 0..(Len(buffer) - 1) :
       LET parted == partition(buffer, pivot_idx)
       IN  /\ partitioned' = [called |-> TRUE, before |-> buffer,
                              pivot_idx |-> pivot_idx,
                              after |-> parted.list, p |-> parted.store_idx]
           /\ buffer' = parted.list
  /\ select_pc' = "partitioned"
  /\ UNCHANGED <<select_in, frame, selected, pivots,
                 search_vars, heap_vars, sjt_vars, match_vars, ternary_vars>>

NextSelect == QuickSmallest \/ Partition

SpecSelect == InitSelect /\ [][NextSelect]_vars

\* ---------------------------------------------------------- a ternary call
InitTernary ==
  /\ NoSearch
  /\ NoHeap
  /\ NoSJT
  /\ NoMatch
  /\ NoSelect
  /\ left \in 0..MaxSteps
  /\ right \in 0..MaxSteps
  /\ absolute_precision \in 1..MaxPrecision
  /\ binade \in 0..MaxBinade
  /\ ternary_pc = "new"
  /\ iterations = 0

ternary_others == <<search_vars, heap_vars, sjt_vars, match_vars, select_vars>>

\* The check on entry.
TernaryEnter ==
  /\ ternary_pc = "new"
  /\ ternary_pc' = IF precision_too_small(absolute_precision) THEN "panic" ELSE "loop"
  /\ UNCHANGED <<left, right, absolute_precision, binade, iterations, ternary_others>>

\* One iteration of the loop; f is any function, so the comparison of its two
\* values comes out either way.
TernaryIterate ==
  /\ ternary_pc = "loop"
  /\ iterations < MaxIterations
  /\ ternary_width(left, right, binade) >= absolute_precision
  /\ \E result_comparison \in BOOLEAN :
       IF result_comparison
       THEN left' = left_third(left, right) /\ right' = right
       ELSE right' = right_third(left, right) /\ left' = left
  /\ iterations' = iterations + 1
  /\ UNCHANGED <<absolute_precision, binade, ternary_pc, ternary_others>>

\* The loop's exit.
TernaryReturn ==
  /\ ternary_pc = "loop"
  /\ ternary_width(left, right, binade) < absolute_precision
  /\ ternary_pc' = "returned"
  /\ UNCHANGED <<left, right, absolute_precision, binade, iterations, ternary_others>>

NextTernary == TernaryEnter \/ TernaryIterate \/ TernaryReturn

SpecTernary == InitTernary /\ [][NextTernary]_vars

\* -------------------------------------------------- what the claims refer to
Positions(s) == 0..(Len(s) - 1)

Occurs(s, v) == \E i \in Positions(s) : At(s, i) = v

CountLess(s, v) == Cardinality({i \in Positions(s) : At(s, i) < v})

IsStrictlySorted(s) == \A i \in 1..Len(s) : \A j \in (i + 1)..Len(s) : s[i] < s[j]

Abs(x) == IF x < 0 THEN -x ELSE x

\* C1: on a sorted sequence, duplicates allowed, binary's rank is the number
\* of elements strictly less than the probed value.
C1_RankCountsSmaller ==
  op = "binary" => result.rank = CountLess(sequence, val)

\* C2: on a sorted sequence binary's index is Some(i) with S[i] = v exactly
\* when v occurs in S, and None exactly when it does not.
C2_IndexIffOccurs ==
  op = "binary" =>
    /\ \A i \in result.index : i \in Positions(sequence) /\ At(sequence, i) = val
    /\ (result.index # None) <=> Occurs(sequence, val)
    /\ (result.index = None) <=> ~Occurs(sequence, val)

C2_Witness ==
  /\ op = "binary"
  /\ result.index # None
  /\ Cardinality({i \in Positions(sequence) : At(sequence, i) = val}) >= 2
  /\ Occurs(sequence, val + 1)

\* C3: exponential and interpolation return the same position-or-not-found
\* result as binary's index on every sorted integer sequence.
C3_AgreeWithBinary ==
  /\ op = "exponential" => result = binary(sequence, val).index
  /\ op = "interpolation" =>
       ~result.panicked /\ result.value = binary(sequence, val).index

Last(s) == At(s, Len(s) - 1)

\* Position i holds an element other than v that is nearest to v, the smaller
\* one when two are equally near.
IsNearestOther(s, v, i) ==
  /\ i \in Positions(s)
  /\ At(s, i) # v
  /\ \A j \in Positions(s) :
       At(s, j) # v =>
         \/ Abs(At(s, i) - v) < Abs(At(s, j) - v)
         \/ Abs(At(s, i) - v) = Abs(At(s, j) - v) /\ At(s, i) <= At(s, j)

\* C7: on a sorted sequence of at least two distinct integers,
\* binary_nearest_neighbor returns the position of the element other than v
\* that is nearest to v, the predecessor when predecessor and successor are
\* equally near.
C7_NearestNeighbor ==
  (op = "binary_nearest_neighbor" /\ Len(sequence) >= 2 /\ IsStrictlySorted(sequence)) =>
    \E i \in result.value : IsNearestOther(sequence, val, i)

\* C8 as stated: on a non-empty sorted sequence binary_nearest_neighbor returns
\* 0 when v is below the minimum, 1 when v equals the minimum, and the
\* last-but-one position whenever v is greater than or equal to the maximum.
C8_EdgesAsStated ==
  (op = "binary_nearest_neighbor" /\ Len(sequence) >= 1) =>
    /\ val < At(sequence, 0) => result.value = Some(0)
    /\ val = At(sequence, 0) => result.value = Some(1)
    /\ val >= Last(sequence) => result.value = Some(Len(sequence) - 2)

\* C8 as amended: on a non-empty sorted sequence binary_nearest_neighbor returns
\* 0 when v is below the minimum, 1 when binary finds v at position 0, the
\* last-but-one position when binary finds v at the last position of a sequence
\* of two or more, and the last position when v is above the maximum.
C8_Edges ==
  (op = "binary_nearest_neighbor" /\ Len(sequence) >= 1) =>
    /\ val < At(sequence, 0) => result.value = Some(0)
    /\ binary(sequence, val).index = Some(0) => result.value = Some(1)
    /\ (Len(sequence) >= 2 /\ binary(sequence, val).index = Some(Len(sequence) - 1)) =>
         result.value = Some(Len(sequence) - 2)
    /\ val > Last(sequence) => result.value = Some(Len(sequence) - 1)

C8_Witness ==
  /\ op = "binary_nearest_neighbor"
  /\ Len(sequence) >= 2
  /\ val > Last(sequence)
  /\ result.value = Some(Len(sequence) - 1)

\* C9: on a sorted sequence binary_predecessor returns the position of the
\* greatest element strictly less than v, and none exactly when no element is
\* strictly less than v.
C9_Predecessor ==
  op = "binary_predecessor" =>
    LET smaller == {i \in Positions(sequence) : At(sequence, i) < val}
    IN  /\ (result = None) <=> (smaller = {})
        /\ \A i \in result :
             i \in smaller /\ \A j \in smaller : At(sequence, j) <= At(sequence, i)

\* C10: on a sorted sequence binary_successor returns index + 1 when v is found
\* and index + 1 is a position, rank when v is not found and rank is a
\* position, and none otherwise; the position returned is that of the first
\* element greater than v.
C10_Successor ==
  op = "binary_successor" =>
    LET found == binary(sequence, val)
        expected == IF found.index # None
                    THEN {i + 1 : i \in found.index} \cap Positions(sequence)
                    ELSE {found.rank} \cap Positions(sequence)
    IN  /\ result = expected
        /\ \A i \in result :
             /\ At(sequence, i) > val
             /\ \A j \in 0..(i - 1) : At(sequence, j) <= val

RECURSIVE Factorial(_)
Factorial(n) == IF n <= 1 THEN 1 ELSE n * Factorial(n - 1)

PairwiseDistinct(s) == Cardinality({s[i] : i \in 1..Len(s)}) = Len(s)

\* C4: between creation and the first None, and between any two consecutive
\* None, HeapGen returns exactly n! vectors, pairwise distinct.
C4_HeapCycleIsFactorial ==
  /\ PairwiseDistinct(heap_cycle)
  /\ heap_out = "none" => Len(heap_cycle) = Factorial(Len(heap.last_permutation))

C4_Witness ==
  /\ heap_out = "none"
  /\ heap_exhausted = 2
  /\ Len(heap.last_permutation) = MaxN
  /\ Len(heap_cycle) = Factorial(MaxN)

\* C5: a freshly created SJTEven over n distinct elements in any arrangement,
\* n = 0 included, returns exactly n! vectors, pairwise distinct, and then
\* None, without failing.
C5_SJTFirstCycle ==
  sjt_exhausted = 0 \/ (sjt_exhausted = 1 /\ sjt_out = "none") =>
    /\ sjt_out # "panic"
    /\ PairwiseDistinct(sjt_cycle)
    /\ sjt_out = "none" => Len(sjt_cycle) = Factorial(Len(sjt_input))

\* C6: an SJTEven created over n >= 1 distinct elements in ascending order
\* returns exactly n! vectors, none of them twice, in every cycle: the first
\* one and each one that starts after a None.
C6_SJTEveryCycle ==
  Len(sjt_input) >= 1 /\ IsStrictlySorted(sjt_input) =>
    /\ PairwiseDistinct(sjt_cycle)
    /\ sjt_out = "none" => Len(sjt_cycle) = Factorial(Len(sjt_input))

\* The pattern occurs in the sequence from position i on.
OccursAt(s, p, i) ==
  /\ i + Len(p) <= Len(s)
  /\ \A k \in 1..Len(p) : s[i + k] = p[k]

\* C11: bitap returns the least i with S[i..i+|P|] = P and -1 exactly when
\* there is none; 0 for the empty pattern, -1 when the pattern is longer than
\* the sequence.
C11_BitapLeftmost ==
  op = "bitap" =>
    LET starts == {i \in 0..Len(sequence) : OccursAt(sequence, pattern, i)}
    IN  /\ ~result.panicked
        /\ (result.value = -1) <=> (starts = {})
        /\ result.value # -1 =>
             result.value \in starts /\ \A i \in starts : result.value <= i
        /\ Len(pattern) = 0 => result.value = 0
        /\ Len(pattern) > Len(sequence) => result.value = -1

\* t is s with one element inserted, deleted or replaced.
OneEdit(s, t) ==
  \/ /\ Len(t) = Len(s) + 1
     /\ \E i \in 1..Len(t) : s = SubSeq(t, 1, i - 1) \o SubSeq(t, i + 1, Len(t))
  \/ /\ Len(s) = Len(t) + 1
     /\ \E i \in 1..Len(s) : t = SubSeq(s, 1, i - 1) \o SubSeq(s, i + 1, Len(s))
  \/ /\ Len(t) = Len(s)
     /\ Cardinality({i \in 1..Len(s) : s[i] # t[i]}) = 1

\* The sequences one edit away from s, tabulated (@@ yields an explicit table).
EditNeighbors == [s \in Strings |-> {t \in Strings : OneEdit(s, t)}] @@ <<>>

\* For every s the sequences that at most d edits turn s into.
RECURSIVE WithinEditsOf(_)
WithinEditsOf(d) ==
  IF d = 0 THEN [s \in Strings |-> {s}] @@ <<>>
  ELSE LET fewer == WithinEditsOf(d - 1)
       IN  [s \in Strings |->
              fewer[s] \cup UNION {EditNeighbors[t] : t \in fewer[s]}] @@ <<>>

\* Replacing or deleting every element and inserting the rest takes at most
\* MaxStr edits.
WithinEdits == [d \in 0..MaxStr |-> WithinEditsOf(d)] @@ <<>>

\* The least number of edits that turns s into t.
EditDistance(s, t) ==
  CHOOSE d \in 0..MaxStr :
    /\ t \in WithinEdits[d][s]
    /\ \A e \in 0..(d - 1) : t \notin WithinEdits[e][s]

\* C12: levenshtein_distance(source, target) is the least number of
\* insertions, deletions and substitutions that turn source into target, and
\* every cell [i][j] of its table is that number for the first i source
\* elements and the first j target elements.
C12_LevenshteinIsMinimum ==
  op = "levenshtein_distance" =>
    LET distances == levenshtein_distances(source, target)
    IN  /\ result = EditDistance(source, target)
        /\ \A i \in 0..Len(source) : \A j \in 0..Len(target) :
             distances[i][j] = EditDistance(SubSeq(source, 1, i), SubSeq(target, 1, j))

C12_Witness ==
  /\ op = "levenshtein_distance"
  /\ Len(source) = MaxStr
  /\ Len(target) = MaxStr - 1
  /\ result = 2

\* C13: levenshtein_distance(A, B) = levenshtein_distance(B, A),
\* levenshtein_distance(A, A) = 0 and levenshtein_distance(A, []) =
\* levenshtein_distance([], A) = |A|.
C13_LevenshteinRelations ==
  op = "levenshtein_distance" =>
    /\ result = levenshtein_distance(target, source)
    /\ source = target => result = 0
    /\ target = <<>> => result = Len(source)
    /\ source = <<>> => result = Len(target)

C13_Witness ==
  /\ op = "levenshtein_distance"
  /\ Len(source) = MaxStr
  /\ target = <<>>
  /\ result = MaxStr

CountAtMost(s, v) == Cardinality({i \in Positions(s) : At(s, i) <= v})

CountOf(s, v) == Cardinality({i \in Positions(s) : At(s, i) = v})

\* C14: for every list (duplicates allowed), every k below its length and
\* every sequence of pivot positions, quick_smallest returns an element equal
\* to the one at position k of a sorted copy of the list: at most k elements
\* are smaller and more than k are not larger.
C14_QuickSmallestIsKth ==
  (select_pc \in {"returned", "panic"} /\ select_in.k < Len(select_in.list)) =>
    /\ select_pc = "returned"
    /\ \E x \in selected :
         /\ CountLess(select_in.list, x) <= select_in.k
         /\ select_in.k < CountAtMost(select_in.list, x)

C14_Witness ==
  /\ select_pc = "returned"
  /\ Len(pivots) >= 2
  /\ Len(select_in.list) = MaxList
  /\ \E x \in selected : CountOf(select_in.list, x) >= 2 /\ x # 0

\* C15: quick_smallest fails whenever k >= len(list), the empty list included,
\* before a pivot is drawn and before any element is moved.
C15_QuickSmallestRejectsK ==
  (select_pc \in {"call", "returned", "panic"}
     /\ select_in.k >= Len(select_in.list)) =>
    /\ select_pc = "panic"
    /\ pivots = <<>>
    /\ ~partitioned.called
    /\ buffer = select_in.list

C15_Witness ==
  /\ select_pc = "panic"
  /\ Len(select_in.list) = MaxList
  /\ select_in.k = MaxList

\* C20: for a non-empty list and a valid pivot position, partition returns p
\* with the pivot value at p, only smaller elements before p, no smaller
\* element after p, p the number of elements smaller than the pivot value,
\* and the list a rearrangement of what it was.
C20_PartitionPostcondition ==
  partitioned.called =>
    LET before == partitioned.before
        after == partitioned.after
        p == partitioned.p
        pivot == At(before, partitioned.pivot_idx)
    IN  /\ Len(after) = Len(before)
        /\ p \in Positions(after)
        /\ At(after, p) = pivot
        /\ \A i \in Positions(after) : i < p => At(after, i) < pivot
        /\ \A i \in Positions(after) : i > p => At(after, i) >= pivot
        /\ p = CountLess(before, pivot)
        /\ \A x \in 0..MaxKey : CountOf(after, x) = CountOf(before, x)

C20_Witness ==
  /\ partitioned.called
  /\ Len(partitioned.before) = MaxList
  /\ partitioned.p = 1
  /\ partitioned.pivot_idx = 2
  /\ CountOf(partitioned.before, At(partitioned.before, 2)) >= 2
  /\ partitioned.after # partitioned.before

\* C16: whatever sequence binary is given, sorted or not, its result has
\* rank = i when index = Some(i) and a rank in 0..len, so the check of
\* BinarySearchResult::new never fails in binary nor in exponential,
\* binary_predecessor, binary_successor and binary_nearest_neighbor, which
\* build their results by calling binary on the sequence or on a part of it.
C16_BinaryResultConsistent ==
  /\ op = "binary" =>
       /\ ~result.panicked
       /\ \A i \in result.index : result.rank = i
       /\ result.rank \in 0..Len(sequence)
  /\ op \in {"exponential", "binary_predecessor", "binary_successor",
             "binary_nearest_neighbor"} =>
       \A lo \in 0..Len(sequence) : \A hi \in lo..Len(sequence) :
         LET part == binary(SubSeq(sequence, lo + 1, hi), val)
         IN  /\ ~part.panicked
             /\ \A i \in part.index : part.rank = i
             /\ part.rank \in 0..(hi - lo)

C16_Witness ==
  /\ op = "binary"
  /\ Len(sequence) = MaxLen
  /\ ~IsSorted(sequence)
  /\ result.index # None
  /\ result.rank > 0

\* b is a with the elements at two neighbouring positions exchanged.
AdjacentExchange(a, b) ==
  /\ Len(b) = Len(a)
  /\ \E p \in 1..(Len(a) - 1) :
       /\ a[p] # a[p + 1]
       /\ b = [a EXCEPT ![p] = a[p + 1], ![p + 1] = a[p]]

\* C17: every permutation SJTEven returns, except the first of a cycle, is the
\* one returned by the previous call with the elements at two neighbouring
\* positions exchanged and every other element in place.
C17_SJTAdjacentExchange ==
  \A i \in 1..(Len(sjt_cycle) - 1) : AdjacentExchange(sjt_cycle[i], sjt_cycle[i + 1])

C17_Witness ==
  /\ Len(sjt_input) = MaxN
  /\ sjt_exhausted = 1
  /\ Len(sjt_cycle) >= 3
  /\ sjt_out = "some"

\* The generator is as HeapGen::new leaves it, whatever sequence it holds.
HeapAfterCreation ==
  /\ \A i \in 1..Len(heap.swaps) : heap.swaps[i] = 0
  /\ heap.n = 0
  /\ heap.count = 0

\* The generator is as SJTEven::new leaves it, whatever sequence it holds.
SJTAfterCreation ==
  /\ \A i \in 1..Len(sjt.directions) : sjt.directions[i] = (IF i = 1 THEN 0 ELSE -1)
  /\ sjt.count = 0

\* C18: when HeapGen or SJTEven signals exhaustion its counters (directions)
\* and call counter are as after creation and it holds the sequence it
\* returned last; the next call returns that sequence unchanged, so no
\* exhaustion signal follows an exhaustion signal directly.
C18_RestartAfterExhaustion ==
  /\ [](heap_out = "none" =>
          /\ HeapAfterCreation
          /\ heap.last_permutation = Last(heap_cycle))
  /\ [](sjt_out = "none" =>
          /\ SJTAfterCreation
          /\ sjt.last_permutation = Last(sjt_cycle))
  /\ [][(heap_out = "none" /\ HeapNext) =>
          /\ heap_out' = "some"
          /\ heap'.last_permutation = heap.last_permutation
          /\ heap_cycle' = <<heap.last_permutation>>]_vars
  /\ [][(sjt_out = "none" /\ SJTNext) =>
          /\ sjt_out' = "some"
          /\ sjt'.last_permutation = sjt.last_permutation
          /\ sjt_cycle' = <<sjt.last_permutation>>]_vars

C18_Witness ==
  /\ heap_exhausted = 1
  /\ heap_out = "some"
  /\ heap.count = 1
  /\ Len(heap.last_permutation) = MaxN
  /\ heap_cycle = <<heap.last_permutation>>

\* C19: ternary fails on entry, before f is evaluated, when absolute_precision
\* is below 1e-14; for any other precision and any bounds, in either order, the
\* loop ends because every iteration, whichever way the comparison of f's
\* values comes out, makes the interval narrower.
C19_TernaryEnds ==
  /\ ternary_pc # "new" =>
       ((ternary_pc = "panic") <=> precision_too_small(absolute_precision))
  /\ ternary_pc = "panic" => iterations = 0
  /\ (ternary_pc = "loop"
        /\ ternary_width(left, right, binade) >= absolute_precision) =>
       /\ ternary_width(left_third(left, right), right, binade)
            < ternary_width(left, right, binade)
       /\ ternary_width(left, right_third(left, right), binade)
            < ternary_width(left, right, binade)

\* C21: whenever binary_nearest_neighbor returns Some(i) on a sorted sequence,
\* i is a position of the sequence, one-element sequences and v equal to the
\* minimum included.
C21_NearestIsAPosition ==
  (op = "binary_nearest_neighbor" /\ ~result.panicked) =>
    \A i \in result.value : i \in Positions(sequence)

\* C22: in every state of an SJTEven over n >= 1 distinct elements, across
\* exhaustion and restart, the element at position 0 does not look towards
\* lower positions and the element at the last position does not look towards
\* higher positions, and next never fails on an out-of-range position.
C22_SJTBoundaryDirections ==
  Len(sjt_input) >= 1 =>
    /\ At(sjt.directions, 0) # -1
    /\ Last(sjt.directions) # 1
    /\ sjt_out # "panic"

\* C23: on a non-empty sorted sequence every iteration of interpolation's loop
\* computes a probe with low <= mid <= high < len, sets high = mid - 1 only
\* when mid > low and low = mid + 1 only when mid < high, and leaves a smaller
\* window; the loop ends with low a position of the sequence.
C23_InterpolationWindow ==
  (op = "interpolation" /\ Len(sequence) >= 1) =>
    LET steps == interpolation_steps(sequence, val, 0, Len(sequence) - 1,
                                     overflow_checks)
    IN  \A n \in 1..Len(steps) :
          LET step == steps[n]
          IN  /\ step.at # "panic"
              /\ step.low <= step.mid
              /\ step.mid <= step.high
              /\ step.high < Len(sequence)
              /\ step.at = "exit" => step.low \in Positions(sequence)
              /\ n < Len(steps) =>
                   /\ steps[n + 1].high # step.high =>
                        step.mid > step.low /\ steps[n + 1].high = step.mid - 1
                   /\ steps[n + 1].low # step.low =>
                        step.mid < step.high /\ steps[n + 1].low = step.mid + 1
                   /\ steps[n + 1].high - steps[n + 1].low < step.high - step.low
====
